---- MODULE Spec2Model ----
(***************************************************************************)
(* Session authentication and role authorization of the FastAPI           *)
(* application: one browser session, the credential table, and one action  *)
(* per route handler.  Strings whose characters the code inspects          *)
(* (paths, usernames, display names) are sequences of one-character        *)
(* strings; strings the code only compares (roles, e-mails, passwords,     *)
(* template names) are TLA+ strings.  A Python dict is a function whose    *)
(* domain is its set of keys; the empty dict and Python's None are both    *)
(* the empty function where a dict-or-None is expected.                    *)
(***************************************************************************)
EXTENDS Naturals, Sequences, FiniteSets, TLC

VARIABLES session, request, response

vars == <<session, request, response>>

(***************************************************************************)
(* Strings                                                                 *)
(***************************************************************************)

\* n copies of the character c.
Repeat(c, n) == [i \in 1..n |-> c]

\* str.startswith for a one-character prefix.
StartsWith(s, c) == Len(s) >= 1 /\ s[1] = c

\* Python's None where an optional string is expected (no e-mail is "None").
None == "None"

\* Python's None / empty dict where a dict is expected.
Empty == <<>>

(***************************************************************************)
(* Paths                                                                   *)
(***************************************************************************)

HomePath == <<"/">>
LoginPath == <<"/", "l", "o", "g", "i", "n">>
LogoutPath == <<"/", "l", "o", "g", "o", "u", "t">>
DashboardPath == <<"/", "d", "a", "s", "h", "b", "o", "a", "r", "d">>
ProfilePath == <<"/", "p", "r", "o", "f", "i", "l", "e">>
ReportesPath == DashboardPath \o <<"/", "r", "e", "p", "o", "r", "t", "e", "s">>
ConfiguracionPath == <<"/", "c", "o", "n", "f", "i", "g", "u", "r", "a", "c", "i", "o", "n">>
AdminPath == <<"/", "a", "d", "m", "i", "n">>

\* The routes of protected.py, each guarded by get_current_user alone.
ProtectedPaths == {DashboardPath, ProfilePath, ReportesPath, ConfiguracionPath}

\* The template each protected route renders.
ProtectedTemplate(path) ==
    CASE path = DashboardPath -> "dashboard.html"
      [] path = ProfilePath -> "profile.html"
      [] path = ReportesPath -> "reportes.html"
      [] path = ConfiguracionPath -> "configuracion.html"

\* Values of the query parameter `next` of GET /login: absent or empty (both
\* falsy), a relative path, an absolute URL, a protocol-relative URL.
EvilHost == <<"e", "v", "i", "l", ".", "e", "x", "a", "m", "p", "l", "e", "/", "x">>
AbsoluteUrl == <<"h", "t", "t", "p", ":", "/", "/">> \o EvilHost
ProtocolRelativeUrl == <<"/", "/">> \o EvilHost
NextValues == {Empty, ReportesPath, AbsoluteUrl, ProtocolRelativeUrl}

(***************************************************************************)
(* Identity model (models.py)                                              *)
(***************************************************************************)

UsernameMinLength == 3
UsernameMaxLength == 50
NameMinLength == 1
NameMaxLength == 100

\* A validation without max_length.
ValidUserWithoutMax(d) ==
    /\ "username" \in DOMAIN d
    /\ Len(d["username"]) >= UsernameMinLength
    /\ "name" \in DOMAIN d
    /\ Len(d["name"]) >= NameMinLength

\* Whether User(**d) passes pydantic's validation: username and name are
\* required and length-bounded, email and role are optional.
ValidUser(d) ==
    /\ "username" \in DOMAIN d
    /\ Len(d["username"]) >= UsernameMinLength
    /\ Len(d["username"]) <= UsernameMaxLength
    /\ "name" \in DOMAIN d
    /\ Len(d["name"]) >= NameMinLength
    /\ Len(d["name"]) <= NameMaxLength

\* User(**d) for a d that validates: the four fields, defaults filled in.
User(d) ==
    [username |-> d["username"],
     name |-> d["name"],
     email |-> IF "email" \in DOMAIN d THEN d["email"] ELSE None,
     role |-> IF "role" \in DOMAIN d THEN d["role"] ELSE "user"]

\* A dump that leaves the role out.
model_dump_excludes_role(user) ==
    [username |-> user.username, name |-> user.name, email |-> user.email]

\* user.model_dump(): the dict of the four fields.
model_dump(user) ==
    [username |-> user.username, name |-> user.name,
     email |-> user.email, role |-> user.role]

(***************************************************************************)
(* Password hasher and credential table (database.py, services.py)         *)
(***************************************************************************)

\* pwd_context.hash: an argon2 token.  The digest is abstracted to the
\* plaintext it was computed from; the scheme tag is what identifies it.
hash_password(password) == [scheme |-> "argon2", digest |-> password]

\* A stored value that is no argon2 token (a plaintext left in the column).
MalformedHash == [scheme |-> "", digest |-> "1234"]

\* pwd_context can identify the token's scheme; otherwise verify raises
\* UnknownHashError.
HashIdentified(hashed_password) == hashed_password.scheme = "argon2"

\* verify_password for an identified token.
verify_password(plain_password, hashed_password) ==
    hashed_password.digest = plain_password

AdminName == <<"a", "d", "m", "i", "n">>
UserName == <<"u", "s", "e", "r">>
EvaName == <<"e", "v", "a">>
OldName == <<"o", "l", "d">>
UnknownName == <<"b", "o", "b">>
\* A username and a display name of the greatest lengths User accepts.
LongestName == Repeat("m", UsernameMaxLength)
LongestDisplayName == Repeat("n", NameMaxLength)

\* The rows of table users, keyed by username.
UsersTable ==
    (AdminName :> [username |-> AdminName, name |-> <<"A", "d", "a">>,
                   hashed_pass |-> hash_password("admin-pw"),
                   email |-> "ada@example.com", role |-> "admin"])
    @@ (UserName :> [username |-> UserName, name |-> <<"U">>,
                     hashed_pass |-> hash_password("user-pw"),
                     email |-> None, role |-> "user"])
    @@ (EvaName :> [username |-> EvaName, name |-> <<"E", "v", "a">>,
                    hashed_pass |-> hash_password("eva-pw"),
                    email |-> "eva@example.com", role |-> "Admin"])
    @@ (OldName :> [username |-> OldName, name |-> <<"O", "l", "d">>,
                    hashed_pass |-> MalformedHash,
                    email |-> None, role |-> "user"])
    @@ (LongestName :> [username |-> LongestName, name |-> LongestDisplayName,
                        hashed_pass |-> hash_password("user-pw"),
                        email |-> "max@example.com", role |-> "user"])

\* Form inputs of POST /login.
UsernameInputs == DOMAIN UsersTable \cup {UnknownName}
PasswordInputs == {"admin-pw", "user-pw", "eva-pw", "1234"}

\* authenticate_user that builds the User without the row's role.
authenticate_user_drops_role(username, password) ==
    IF username \notin DOMAIN UsersTable
    THEN [raised |-> "", user |-> Empty]
    ELSE LET result == UsersTable[username] IN
         IF ~HashIdentified(result.hashed_pass)
         THEN [raised |-> "UnknownHashError", user |-> Empty]
         ELSE IF ~verify_password(password, result.hashed_pass)
         THEN [raised |-> "", user |-> Empty]
         ELSE [raised |-> "",
               user |-> User([username |-> result.username, name |-> result.name,
                              email |-> result.email])]

\* AuthService.authenticate_user: [raised, user].  raised names the
\* exception that escapes ("" when none); user is the User or Empty (None).
authenticate_user(username, password) ==
    IF username \notin DOMAIN UsersTable
    THEN [raised |-> "", user |-> Empty]
    ELSE LET result == UsersTable[username] IN
         IF ~HashIdentified(result.hashed_pass)
         THEN [raised |-> "UnknownHashError", user |-> Empty]
         ELSE IF ~verify_password(password, result.hashed_pass)
         THEN [raised |-> "", user |-> Empty]
         ELSE LET fields == [username |-> result.username, name |-> result.name,
                             email |-> result.email, role |-> result.role] IN
              IF ValidUser(fields)
              THEN [raised |-> "", user |-> User(fields)]
              ELSE [raised |-> "ValidationError", user |-> Empty]

(***************************************************************************)
(* Session store (starlette SessionMiddleware's dict)                      *)
(***************************************************************************)

\* session[key] = value
Set(s, key, value) == (key :> value) @@ s

\* The session without key (the effect of session.pop on the dict).
Remove(s, key) == [k \in DOMAIN s \ {key} |-> s[k]]

\* The value session.pop(key, default) returns.
PopValue(s, key, default) == IF key \in DOMAIN s THEN s[key] ELSE default

\* session.get("user"): the stored value, or Empty for None.
GetUserData(s) == IF "user" \in DOMAIN s THEN s["user"] ELSE Empty

(***************************************************************************)
(* Authorization dependency chain (auth.py)                                *)
(***************************************************************************)

NoException == [status_code |-> 0, detail |-> ""]

HTTPException(status_code, detail) == [status_code |-> status_code, detail |-> detail]

\* get_current_user that raises 401 for a missing identity without storing
\* the requested path.
get_current_user_no_record(s, path) ==
    LET user_data == GetUserData(s) IN
    IF user_data = Empty
    THEN [user |-> Empty,
          exc |-> HTTPException(401, "No autenticado"),
          session |-> s]
    ELSE IF ValidUser(user_data)
    THEN [user |-> User(user_data), exc |-> NoException, session |-> s]
    ELSE [user |-> Empty,
          exc |-> HTTPException(401, "Sesion invalida"),
          session |-> Empty]

\* get_current_user on session s for a request to path: the User it returns
\* (Empty when it raises), the HTTPException it raises (NoException when it
\* returns) and the session it leaves.  Message texts are kept without
\* their accents.
get_current_user(s, path) ==
    LET user_data == GetUserData(s) IN
    IF user_data = Empty
    THEN [user |-> Empty,
          exc |-> HTTPException(401, "No autenticado"),
          session |-> Set(s, "redirect_after_login", path)]
    ELSE IF ValidUser(user_data)
    THEN [user |-> User(user_data), exc |-> NoException, session |-> s]
    ELSE [user |-> Empty,
          exc |-> HTTPException(401, "Sesion invalida"),
          session |-> Empty]

\* get_optional_user: the User, or Empty for None; the session is not touched.
get_optional_user(s) ==
    LET user_data == GetUserData(s) IN
    IF user_data = Empty THEN Empty
    ELSE IF ValidUser(user_data) THEN User(user_data)
    ELSE Empty

AdminDetail == "Acceso denegado: se requieren permisos de administrador"

\* require_admin that checks the role itself when no identity came through.
require_admin_unchained(dep) ==
    IF dep.user = Empty \/ dep.user.role # "admin"
    THEN [user |-> Empty, exc |-> HTTPException(403, AdminDetail),
          session |-> dep.session]
    ELSE dep

\* require_admin that records nothing but drops the session it refuses.
require_admin_clears_on_forbidden(dep) ==
    IF dep.exc # NoException THEN dep
    ELSE IF dep.user.role # "admin"
    THEN [user |-> Empty, exc |-> HTTPException(403, AdminDetail),
          session |-> Empty]
    ELSE dep

\* require_admin that refuses only the role "user".
require_admin_refuses_user_only(dep) ==
    IF dep.exc # NoException THEN dep
    ELSE IF dep.user.role = "user"
    THEN [user |-> Empty, exc |-> HTTPException(403, AdminDetail),
          session |-> dep.session]
    ELSE dep

\* require_admin chained on get_current_user: dep is get_current_user's
\* result; when that raised, require_admin is never called.
require_admin(dep) ==
    IF dep.exc # NoException THEN dep
    ELSE IF dep.user.role # "admin"
    THEN [user |-> Empty, exc |-> HTTPException(403, AdminDetail),
          session |-> dep.session]
    ELSE dep

(***************************************************************************)
(* Requests and responses                                                  *)
(***************************************************************************)

\* No exchange has happened since the session last changed hands.
NoRequest == [method |-> "", path |-> Empty, query |-> Empty, form |-> Empty]

NoResponse ==
    [status_code |-> 0, location |-> Empty, template |-> "", context |-> Empty,
     exc |-> NoException, raised |-> ""]

Get(path, query) == [method |-> "GET", path |-> path, query |-> query, form |-> Empty]

Post(path, form) == [method |-> "POST", path |-> path, query |-> Empty, form |-> form]

\* templates.TemplateResponse(template, context, status_code); the context
\* is kept without its "request" entry.
TemplateResponse(template, context, status_code) ==
    [status_code |-> status_code, location |-> Empty, template |-> template,
     context |-> context, exc |-> NoException, raised |-> ""]

RedirectResponse(url, status_code) ==
    [status_code |-> status_code, location |-> url, template |-> "",
     context |-> Empty, exc |-> NoException, raised |-> ""]

\* An exception no handler is registered for: the server's 500 response.
ServerError(raised) ==
    [status_code |-> 500, location |-> Empty, template |-> "",
     context |-> Empty, exc |-> NoException, raised |-> raised]

\* A 401 handler that sends the client to the home page.
unauthorized_handler_to_home(exc) == [RedirectResponse(HomePath, 303) EXCEPT !.exc = exc]

\* @app.exception_handler(401)
unauthorized_handler(exc) == [RedirectResponse(LoginPath, 303) EXCEPT !.exc = exc]

\* @app.exception_handler(403)
forbidden_handler(exc) ==
    [TemplateResponse("error_403.html", [message |-> exc.detail], 403)
        EXCEPT !.exc = exc]

\* The response to a request whose dependency chain raised exc.
ExceptionResponse(exc) ==
    IF exc.status_code = 401 THEN unauthorized_handler(exc) ELSE forbidden_handler(exc)

(***************************************************************************)
(* Route handlers                                                          *)
(***************************************************************************)

\* GET /
home ==
    /\ request' = Get(HomePath, Empty)
    /\ response' = TemplateResponse("home.html",
                                    [user |-> get_optional_user(session)], 200)
    /\ UNCHANGED session

\* A login page that keeps a target already recorded.
login_page_keeps_first(next) ==
    /\ request' = Get(LoginPath, IF next = Empty THEN Empty ELSE [next |-> next])
    /\ session' = IF next # Empty /\ "redirect_after_login" \notin DOMAIN session
                  THEN Set(session, "redirect_after_login", next)
                  ELSE session
    /\ response' = TemplateResponse("login.html", [error |-> None], 200)

\* GET /login, with query parameter next (Empty when absent or empty).
login_page(next) ==
    /\ request' = Get(LoginPath, IF next = Empty THEN Empty ELSE [next |-> next])
    /\ session' = IF next # Empty
                  THEN Set(session, "redirect_after_login", next)
                  ELSE session
    /\ response' = TemplateResponse("login.html", [error |-> None], 200)

LoginError == "Usuario o contrasena incorrectos"

\* The redirect target of a successful login on session s.
RedirectUrl(s) ==
    LET redirect_url == PopValue(s, "redirect_after_login", DashboardPath) IN
    IF ~StartsWith(redirect_url, "/") THEN DashboardPath ELSE redirect_url

\* A login that leaves an identity already in the session in place.
LoginSessionKeepsIdentity(s, user) ==
    Remove(IF "user" \in DOMAIN s THEN s ELSE Set(s, "user", model_dump(user)),
           "redirect_after_login")

\* A login that reads the target with get instead of pop.
LoginSessionKeepsTarget(s, user) == Set(s, "user", model_dump(user))

\* The session a successful login of user leaves.
LoginSession(s, user) ==
    Remove(Set(s, "user", model_dump(user)), "redirect_after_login")

\* A login that drops the session when the credentials are refused.
login_clears_on_failure(username, password) ==
    LET auth == authenticate_user(username, password) IN
    /\ request' = Post(LoginPath, [username |-> username, password |-> password])
    /\ IF auth.raised # ""
       THEN /\ response' = ServerError(auth.raised)
            /\ UNCHANGED session
       ELSE IF auth.user = Empty
       THEN /\ response' = TemplateResponse("login.html",
                                            [error |-> LoginError], 401)
            /\ session' = Empty
       ELSE /\ session' = LoginSession(session, auth.user)
            /\ response' = RedirectResponse(RedirectUrl(session), 303)

\* POST /login
login(username, password) ==
    LET auth == authenticate_user(username, password) IN
    /\ request' = Post(LoginPath, [username |-> username, password |-> password])
    /\ IF auth.raised # ""
       THEN /\ response' = ServerError(auth.raised)
            /\ UNCHANGED session
       ELSE IF auth.user = Empty
       THEN /\ response' = TemplateResponse("login.html",
                                            [error |-> LoginError], 401)
            /\ UNCHANGED session
       ELSE /\ session' = LoginSession(session, auth.user)
            /\ response' = RedirectResponse(RedirectUrl(session), 303)

\* A logout that removes only the identity.
logout_removes_user_only ==
    /\ request' = Get(LogoutPath, Empty)
    /\ session' = Remove(session, "user")
    /\ response' = RedirectResponse(HomePath, 303)

\* GET /logout
logout ==
    /\ request' = Get(LogoutPath, Empty)
    /\ session' = Empty
    /\ response' = RedirectResponse(HomePath, 303)

\* GET /dashboard, /profile, /dashboard/reportes, /configuracion
Protected(path) ==
    LET dep == get_current_user(session, path) IN
    /\ request' = Get(path, Empty)
    /\ session' = dep.session
    /\ response' = IF dep.exc # NoException
                   THEN ExceptionResponse(dep.exc)
                   ELSE TemplateResponse(ProtectedTemplate(path),
                                         [user |-> dep.user], 200)

\* GET /admin
admin_panel ==
    LET dep == require_admin(get_current_user(session, AdminPath)) IN
    /\ request' = Get(AdminPath, Empty)
    /\ session' = dep.session
    /\ response' = IF dep.exc # NoException
                   THEN ExceptionResponse(dep.exc)
                   ELSE TemplateResponse("admin.html", [user |-> dep.user], 200)

(***************************************************************************)
(* Session payloads that no longer match the User schema                   *)
(***************************************************************************)

\* Values under "user" that User(**value) rejects, and the empty payload.
MalformedPayloads ==
    {Empty,
     [name |-> <<"A">>, role |-> "admin"],
     [username |-> AdminName, role |-> "admin"],
     [username |-> Repeat("a", UsernameMinLength - 1), name |-> <<"A">>,
      email |-> None, role |-> "admin"],
     [username |-> Repeat("a", UsernameMaxLength + 1), name |-> <<"A">>,
      email |-> None, role |-> "user"],
     [username |-> AdminName, name |-> Repeat("n", NameMinLength - 1),
      email |-> None, role |-> "admin"],
     [username |-> AdminName, name |-> Repeat("n", NameMaxLength + 1),
      email |-> None, role |-> "user"]}

\* The client's next request carries a session cookie whose "user" entry is
\* stale or schema-mismatched; request and response are reset because no
\* exchange produced this session.
StaleSession(payload) ==
    /\ session' = Set(session, "user", payload)
    /\ request' = NoRequest
    /\ response' = NoResponse

(***************************************************************************)
(* Specification                                                           *)
(***************************************************************************)

Init ==
    /\ session = Empty
    /\ request = NoRequest
    /\ response = NoResponse

Next ==
    \/ home
    \/ \E next \in NextValues : login_page(next)
    \/ \E username \in UsernameInputs, password \in PasswordInputs :
          login(username, password)
    \/ logout
    \/ \E path \in ProtectedPaths : Protected(path)
    \/ admin_panel
    \/ \E payload \in MalformedPayloads : StaleSession(payload)

Spec == Init /\ [][Next]_vars

\* The session is changed by the application's handlers only.
CoreNext ==
    \/ home
    \/ \E next \in NextValues : login_page(next)
    \/ \E username \in UsernameInputs, password \in PasswordInputs :
          login(username, password)
    \/ logout
    \/ \E path \in ProtectedPaths : Protected(path)
    \/ admin_panel

CoreSpec == Init /\ [][CoreNext]_vars

(***************************************************************************)
(* Two POST /login requests of one client in flight at once.  SessionMid-   *)
(* dleware gives each request the session decoded from the cookie the      *)
(* request carried and sends the session back as a cookie with the         *)
(* response.  Here session is the cookie the client holds, request[i] the  *)
(* scope of request i and response[i] the response the client received.    *)
(***************************************************************************)

RequestIds == {1, 2}

\* Credentials authenticate_user accepts: the claim is about logins that
\* succeed.
ValidCredentials ==
    {c \in UsernameInputs \X PasswordInputs :
        LET auth == authenticate_user(c[1], c[2]) IN
        auth.raised = "" /\ auth.user # Empty}

\* Cookies a client holds when it submits the login form: no target, or the
\* target a denied request recorded.
PendingSessions ==
    {Empty} \cup {Set(Empty, "redirect_after_login", path) :
                    path \in {ProfilePath, ReportesPath}}

\* The scope of a request that has not arrived.
IdleScope ==
    [pc |-> "idle", form |-> Empty, session |-> Empty, loaded |-> Empty,
     after |-> {}, reply |-> NoResponse]

\* Request i arrives: the middleware decodes the cookie the client holds
\* into the request's own session.  loaded keeps that session as decoded and
\* after the requests already answered, for the properties.
ConcurrentReceive(i, username, password) ==
    /\ request[i].pc = "idle"
    /\ request' = [request EXCEPT ![i] =
                      [pc |-> "received",
                       form |-> [username |-> username, password |-> password],
                       session |-> session,
                       loaded |-> session,
                       after |-> {j \in RequestIds : request[j].pc = "done"},
                       reply |-> NoResponse]]
    /\ UNCHANGED <<session, response>>

\* The body of login runs on the request's own session; it has no await, so
\* it is one step.
ConcurrentHandle(i) ==
    /\ request[i].pc = "received"
    /\ LET scope == request[i]
           auth == authenticate_user(scope.form.username, scope.form.password)
       IN request' = [request EXCEPT ![i] =
                         [scope EXCEPT
                            !.pc = "handled",
                            !.session = LoginSession(scope.session, auth.user),
                            !.reply = RedirectResponse(RedirectUrl(scope.session),
                                                       303)]]
    /\ UNCHANGED <<session, response>>

\* The response of request i is sent: the middleware encodes the request's
\* session into the cookie, which replaces the one the client holds.
ConcurrentRespond(i) ==
    /\ request[i].pc = "handled"
    /\ request' = [request EXCEPT ![i].pc = "done"]
    /\ response' = [response EXCEPT ![i] = request[i].reply]
    /\ session' = request[i].session

ConcurrentInit ==
    /\ session \in PendingSessions
    /\ request = [i \in RequestIds |-> IdleScope]
    /\ response = [i \in RequestIds |-> NoResponse]

ConcurrentNext ==
    \/ \E i \in RequestIds, c \in ValidCredentials : ConcurrentReceive(i, c[1], c[2])
    \/ \E i \in RequestIds : ConcurrentHandle(i)
    \/ \E i \in RequestIds : ConcurrentRespond(i)

ConcurrentSpec == ConcurrentInit /\ [][ConcurrentNext]_vars

(***************************************************************************)
(* Vocabulary of the properties                                            *)
(***************************************************************************)

RedirectKey == "redirect_after_login"

\* Every route whose dependency chain starts with get_current_user.
GuardedPaths == ProtectedPaths \cup {AdminPath}

\* The step is a request to the guarded route path.
GuardedRequest(path) == IF path = AdminPath THEN admin_panel ELSE Protected(path)

\* The state an exchange leaves: which request it was and how it ended.
IsGuardedExchange == request.method = "GET" /\ request.path \in GuardedPaths

IsLoginExchange == request.method = "POST" /\ request.path = LoginPath

LoginSucceeded == IsLoginExchange /\ response.status_code = 303

Unauthenticated(r) == r.exc.status_code = 401

\* The response of a failed login.
FailedLoginResponse == TemplateResponse("login.html", [error |-> LoginError], 401)

\* The session value under "user" decodes to an Identity.
HoldsIdentity(s) == GetUserData(s) # Empty /\ ValidUser(GetUserData(s))

\* The session value under "user" is present and fails User's validation.
HoldsMalformed(s) == "user" \in DOMAIN s /\ ~ValidUser(s["user"])

\* A same-origin relative path: rooted at "/", not at "//" or "/\".
SameOriginPath(url) ==
    /\ StartsWith(url, "/")
    /\ ~(Len(url) >= 2 /\ url[2] \in {"/", "\\"})

(***************************************************************************)
(* C1                                                                      *)
(***************************************************************************)

\* C1: the URL a successful POST /login redirects to is a same-origin
\* relative path; a stored target that is absolute or externally rooted is
\* never the redirect target.
C1_LoginRedirectSameOrigin ==
    LoginSucceeded => SameOriginPath(response.location)

(***************************************************************************)
(* C2                                                                      *)
(***************************************************************************)

\* C2: a request to a guarded route on a session whose "user" value is
\* malformed (the empty payload included) leaves the session with no key at
\* all and ends 401.
C2_MalformedClearsSession ==
    [][\A path \in GuardedPaths :
          (GuardedRequest(path) /\ HoldsMalformed(session))
              => (session' = Empty /\ Unauthenticated(response'))]_vars

(***************************************************************************)
(* C3                                                                      *)
(***************************************************************************)

\* C3 as stated: after every guarded request that ends Unauthenticated,
\* absent or corrupt identity alike, redirect_after_login is the request's
\* path.
C3_DeniedRecordsPath ==
    (IsGuardedExchange /\ Unauthenticated(response))
        => (RedirectKey \in DOMAIN session /\ session[RedirectKey] = request.path)

\* The exchange was a guarded request denied for want of a "user" value.
DeniedAsAbsent ==
    /\ IsGuardedExchange
    /\ response.exc = HTTPException(401, "No autenticado")

\* C3 amended: a guarded request denied because the session holds no "user"
\* value (absent or empty) leaves redirect_after_login equal to its path, and
\* a successful login that follows it redirects there; a guarded request
\* denied because the payload is corrupt leaves the session empty, with no
\* target recorded.
C3_DeniedAbsentRecordsPath ==
    [][/\ \A path \in GuardedPaths :
             (GuardedRequest(path) /\ Unauthenticated(response'))
                 => IF GetUserData(session) = Empty
                    THEN /\ RedirectKey \in DOMAIN session'
                         /\ session'[RedirectKey] = path
                         /\ DeniedAsAbsent'
                    ELSE session' = Empty /\ ~DeniedAsAbsent'
       /\ \A username \in UsernameInputs, password \in PasswordInputs :
             (login(username, password) /\ LoginSucceeded' /\ DeniedAsAbsent)
                 => response'.location = request.path]_vars

\* A guarded request was denied for an absent identity and its path recorded.
C3_Witness ==
    /\ DeniedAsAbsent
    /\ request.path = ConfiguracionPath
    /\ "user" \notin DOMAIN session
    /\ session[RedirectKey] = ConfiguracionPath

(***************************************************************************)
(* C4                                                                      *)
(***************************************************************************)

\* C4: on a session without identity a request to a protected path P raises
\* 401, which the boundary answers with 303 to /login, and records P; GET
\* /login without next leaves the session as it is; a successful login on a
\* session whose recorded target is P answers 303 to P.
C4_LoginDetourReturns ==
    [][/\ \A path \in GuardedPaths :
             (GuardedRequest(path) /\ "user" \notin DOMAIN session)
                 => /\ response'.exc.status_code = 401
                    /\ response'.status_code = 303
                    /\ response'.location = LoginPath
                    /\ session' = Set(session, RedirectKey, path)
       /\ login_page(Empty) => session' = session
       /\ \A username \in UsernameInputs, password \in PasswordInputs :
             (/\ login(username, password)
              /\ LoginSucceeded'
              /\ RedirectKey \in DOMAIN session
              /\ session[RedirectKey] \in GuardedPaths)
                 => /\ response'.status_code = 303
                    /\ response'.location = session[RedirectKey]]_vars

\* A login landed on /profile, which only a denied request to /profile
\* records.
C4_Witness ==
    /\ LoginSucceeded
    /\ response.location = ProfilePath
    /\ HoldsIdentity(session)

(***************************************************************************)
(* C5                                                                      *)
(***************************************************************************)

\* C5: every successful login leaves redirect_after_login absent; a
\* successful login on a session without a recorded target, in particular
\* one that directly follows another successful login, redirects to
\* /dashboard.
C5_TargetConsumedOnce ==
    [][\A username \in UsernameInputs, password \in PasswordInputs :
          (login(username, password) /\ response'.status_code = 303)
              => /\ RedirectKey \notin DOMAIN session'
                 /\ (RedirectKey \notin DOMAIN session
                        => response'.location = DashboardPath)
                 /\ (LoginSucceeded => response'.location = DashboardPath)]_vars

\* A login consumed a recorded target: it redirected there and the key is gone.
C5_Witness ==
    /\ LoginSucceeded
    /\ response.location = ReportesPath
    /\ RedirectKey \notin DOMAIN session

(***************************************************************************)
(* C6                                                                      *)
(***************************************************************************)

\* C6: on a session holding a valid identity, GET /admin renders the 403
\* access-denied view with the administrator-privileges reason when the
\* identity's role is not exactly "admin", and renders the admin panel with
\* that identity, the session untouched, when it is; so /admin right after a
\* login is authorized exactly when the stored user's role is "admin".
C6_AdminRoleGate ==
    [][/\ (admin_panel /\ HoldsIdentity(session))
             => LET identity == User(session["user"]) IN
                /\ session' = session
                /\ IF identity.role = "admin"
                   THEN response' = TemplateResponse("admin.html",
                                                     [user |-> identity], 200)
                   ELSE /\ response'.exc = HTTPException(403, AdminDetail)
                        /\ response'.status_code = 403
                        /\ response'.template = "error_403.html"
                        /\ response'.context = [message |-> AdminDetail]
       /\ (admin_panel /\ LoginSucceeded)
             => LET role == UsersTable[request.form.username].role IN
                /\ response'.status_code = (IF role = "admin" THEN 200 ELSE 403)
                /\ response'.status_code = 200
                      => response'.context.user.role = "admin"]_vars

\* A logged-in user of role "user" was refused the admin panel.
C6_Witness ==
    /\ request = Get(AdminPath, Empty)
    /\ response.status_code = 403
    /\ response.context = [message |-> AdminDetail]
    /\ HoldsIdentity(session)
    /\ session["user"].role = "user"

(***************************************************************************)
(* C7                                                                      *)
(***************************************************************************)

\* The table has a row for username and password is not the one its stored
\* hash was computed from.
WrongPassword(username, password) ==
    /\ username \in DOMAIN UsersTable
    /\ UsersTable[username].hashed_pass # hash_password(password)

\* C7: a login with an unknown username and a login with a known username
\* and a wrong password end alike: authenticate_user returns None, the
\* response is the 401 login page with the one error text, and the session is
\* left as it was.
C7_FailuresIndistinguishable ==
    [][\A username \in UsernameInputs, password \in PasswordInputs :
          (/\ login(username, password)
           /\ (username \notin DOMAIN UsersTable
                 \/ WrongPassword(username, password)))
              => /\ authenticate_user(username, password)
                       = [raised |-> "", user |-> Empty]
                 /\ response' = FailedLoginResponse
                 /\ session' = session]_vars

(***************************************************************************)
(* C8                                                                      *)
(***************************************************************************)

\* C8: a login for a row whose stored hash the hasher cannot read ends with
\* the failed-login response of a wrong password and no exception escapes
\* the handler.
C8_MalformedHashIsLoginFailure ==
    (/\ IsLoginExchange
     /\ request.form.username \in DOMAIN UsersTable
     /\ ~HashIdentified(UsersTable[request.form.username].hashed_pass))
        => (response.raised = "" /\ response = FailedLoginResponse)

(***************************************************************************)
(* C9                                                                      *)
(***************************************************************************)

\* The non-secret fields of a row of the table.
NonSecretFields(row) ==
    [username |-> row.username, name |-> row.name,
     email |-> row.email, role |-> row.role]

\* C9: after a login with a stored username and the password its hash was
\* computed from, the Identity authenticate_user returned and the value
\* stored under "user" both equal the row's username, name, email and role,
\* and neither has a hashed_pass entry.
C9_IdentityFromRecord ==
    (/\ IsLoginExchange
     /\ request.form.username \in DOMAIN UsersTable
     /\ UsersTable[request.form.username].hashed_pass
           = hash_password(request.form.password))
        => LET row == UsersTable[request.form.username]
               auth == authenticate_user(request.form.username,
                                        request.form.password)
           IN /\ auth.raised = ""
              /\ auth.user = NonSecretFields(row)
              /\ "hashed_pass" \notin DOMAIN auth.user
              /\ "user" \in DOMAIN session
              /\ session["user"] = NonSecretFields(row)
              /\ DOMAIN session["user"] = {"username", "name", "email", "role"}

\* The administrator logged in and the session holds the row's fields.
C9_Witness ==
    /\ LoginSucceeded
    /\ request.form = [username |-> AdminName, password |-> "admin-pw"]
    /\ session["user"].role = "admin"
    /\ session["user"].email = "ada@example.com"

(***************************************************************************)
(* C10                                                                     *)
(***************************************************************************)

\* C10: logout leaves the session without any key and answers 303 to "/";
\* while the session holds no valid identity every request to a guarded
\* route ends Unauthenticated and leaves it without one, and only a
\* successful login puts a valid identity into the session.
C10_LogoutEndsAuthentication ==
    [][/\ logout
             => /\ session' = Empty
                /\ ~HoldsIdentity(session')
                /\ response' = RedirectResponse(HomePath, 303)
       /\ \A path \in GuardedPaths :
             (GuardedRequest(path) /\ ~HoldsIdentity(session))
                 => (Unauthenticated(response') /\ ~HoldsIdentity(session'))
       /\ (~HoldsIdentity(session) /\ HoldsIdentity(session'))
             => LoginSucceeded']_vars

\* A logout has been answered and the session is empty.
C10_Witness ==
    /\ request = Get(LogoutPath, Empty)
    /\ response = RedirectResponse(HomePath, 303)
    /\ session = Empty

(***************************************************************************)
(* C11                                                                     *)
(***************************************************************************)

\* The Identity the login of the last exchange authenticated.
LoggedInUser ==
    authenticate_user(request.form.username, request.form.password).user

\* C11: the value a successful login stores under "user" validates and
\* decodes, by get_current_user and by get_optional_user, to an Identity
\* equal in username, name, email and role to the one that was encoded; a
\* protected request that follows hands that Identity to its template.
C11_SessionRoundTrip ==
    [][/\ LoginSucceeded'
             => LET identity == LoggedInUser'
                    decoded == get_current_user(session', ProfilePath)
                IN /\ ValidUser(session'["user"])
                   /\ decoded.exc = NoException
                   /\ decoded.user.username = identity.username
                   /\ decoded.user.name = identity.name
                   /\ decoded.user.email = identity.email
                   /\ decoded.user.role = identity.role
                   /\ get_optional_user(session') = identity
       /\ \A path \in ProtectedPaths :
             (Protected(path) /\ LoginSucceeded)
                 => response'.context = [user |-> LoggedInUser]]_vars

\* The user whose username and name have the greatest lengths logged in and
\* then opened the profile page with the decoded Identity.
C11_Witness ==
    /\ request = Get(ProfilePath, Empty)
    /\ response.status_code = 200
    /\ response.context.user = User(session["user"])
    /\ Len(response.context.user.username) = UsernameMaxLength
    /\ Len(response.context.user.name) = NameMaxLength
    /\ response.context.user.email = "max@example.com"

(***************************************************************************)
(* C12                                                                     *)
(***************************************************************************)

\* C12: after any request that met a corrupt "user" payload, GET / through
\* get_optional_user included, the session holds no "user" key.
C12_CorruptAlwaysCleared ==
    [][(HoldsMalformed(session) /\ session["user"] # Empty
          /\ (home \/ \E path \in GuardedPaths : GuardedRequest(path)))
             => "user" \notin DOMAIN session']_vars

(***************************************************************************)
(* C13                                                                     *)
(***************************************************************************)

\* The outcome of the exchange a guarded request left.
Authorized(r) == r.exc = NoException /\ r.status_code = 200

Forbidden(r) == r.exc.status_code = 403

\* C13: every guarded request ends in exactly one of AUTHORIZED,
\* UNAUTHENTICATED and FORBIDDEN; FORBIDDEN is reached only on /admin and
\* only from a session whose identity decodes; a request to /admin on an
\* absent or corrupt identity ends UNAUTHENTICATED, and an identity that
\* decodes never ends UNAUTHENTICATED.
C13_OutcomeStateMachine ==
    [][\A path \in GuardedPaths :
          GuardedRequest(path)
             => /\ Cardinality({o \in {"AUTHORIZED", "UNAUTHENTICATED", "FORBIDDEN"} :
                       \/ o = "AUTHORIZED" /\ Authorized(response')
                       \/ o = "UNAUTHENTICATED" /\ Unauthenticated(response')
                       \/ o = "FORBIDDEN" /\ Forbidden(response')}) = 1
                /\ Forbidden(response') => (path = AdminPath /\ HoldsIdentity(session))
                /\ ~HoldsIdentity(session)
                      => (Unauthenticated(response') /\ response'.status_code # 403)
                /\ HoldsIdentity(session) => ~Unauthenticated(response')
                /\ (HoldsIdentity(session) /\ path # AdminPath)
                      => Authorized(response')]_vars

\* /admin was requested on a corrupt identity and the request ended
\* UNAUTHENTICATED, the session cleared.
C13_Witness ==
    /\ request = Get(AdminPath, Empty)
    /\ response.exc = HTTPException(401, "Sesion invalida")
    /\ response.status_code = 303
    /\ session = Empty

(***************************************************************************)
(* C14                                                                     *)
(***************************************************************************)

\* C14 as stated: every denied guarded request and every GET /login with a
\* non-empty next leaves redirect_after_login equal to the value it wrote,
\* and GET /login without next leaves the session as it was.
C14_LastWriterWins ==
    [][/\ \A path \in GuardedPaths :
             (GuardedRequest(path) /\ Unauthenticated(response'))
                 => /\ RedirectKey \in DOMAIN session'
                    /\ session'[RedirectKey] = path
       /\ \A next \in NextValues \ {Empty} :
             login_page(next)
                 => /\ RedirectKey \in DOMAIN session'
                    /\ session'[RedirectKey] = next
       /\ login_page(Empty) => session' = session]_vars

\* C14 amended: a guarded request denied for a missing identity and a GET
\* /login with a non-empty next each overwrite the one value under
\* redirect_after_login and change nothing else; GET /login without next
\* leaves the session as it was; a guarded request denied for a corrupt
\* payload writes no target and empties the session.
C14_LastRecordingWriterWins ==
    [][/\ \A path \in GuardedPaths :
             (GuardedRequest(path) /\ Unauthenticated(response'))
                 => IF GetUserData(session) = Empty
                    THEN session' = Set(session, RedirectKey, path)
                    ELSE session' = Empty
       /\ \A next \in NextValues \ {Empty} :
             login_page(next) => session' = Set(session, RedirectKey, next)
       /\ login_page(Empty) => session' = session]_vars

\* GET /login?next=/dashboard/reportes was answered on a session holding an
\* identity and the target is the one it wrote.
C14_Witness ==
    /\ request = Get(LoginPath, [next |-> ReportesPath])
    /\ session[RedirectKey] = ReportesPath
    /\ HoldsIdentity(session)

(***************************************************************************)
(* C15                                                                     *)
(***************************************************************************)

\* The response hands an Identity to its template.
HandsIdentity(r) == "user" \in DOMAIN r.context /\ r.context.user # Empty

\* The step is a request whose handler receives the reconstructed Identity
\* whenever reconstruction succeeds.
IdentityRequest == home \/ \E path \in ProtectedPaths : Protected(path)

\* C15: an Identity reaches a template only as the reconstruction of the
\* session value, with a username of 3 to 50 and a name of 1 to 100
\* characters; a session value with both fields in those ranges is handed
\* on, and one whose username has 2 or 51 or whose name has 0 or 101
\* characters is not.
C15_ReconstructedWithinBounds ==
    [][(IdentityRequest \/ admin_panel)
          => LET data == GetUserData(session)
                 complete == {"username", "name"} \subseteq DOMAIN data
             IN /\ HandsIdentity(response')
                      => /\ complete
                         /\ response'.context.user = User(data)
                         /\ Len(response'.context.user.username) \in 3..50
                         /\ Len(response'.context.user.name) \in 1..100
                /\ (/\ complete
                    /\ Len(data["username"]) \in 3..50
                    /\ Len(data["name"]) \in 1..100
                    /\ IdentityRequest)
                      => HandsIdentity(response')
                /\ (/\ complete
                    /\ (Len(data["username"]) \in {2, 51}
                          \/ Len(data["name"]) \in {0, 101}))
                      => ~HandsIdentity(response')]_vars

\* The home page was rendered with a reconstructed Identity whose username
\* has the least accepted length.
C15_Witness ==
    /\ request = Get(HomePath, Empty)
    /\ HandsIdentity(response)
    /\ Len(response.context.user.username) = UsernameMinLength
    /\ response.context.user = User(session["user"])

(***************************************************************************)
(* C17                                                                     *)
(***************************************************************************)

\* C17: a POST /login for which authenticate_user returns None changes
\* neither "user" nor redirect_after_login: the session after it is the
\* session before it, so an identity in it still decodes and a pending target
\* is still pending.
C17_FailedLoginKeepsSession ==
    [][\A username \in UsernameInputs, password \in PasswordInputs :
          (/\ login(username, password)
           /\ authenticate_user(username, password) = [raised |-> "", user |-> Empty])
              => /\ session' = session
                 /\ HoldsIdentity(session) => HoldsIdentity(session')
                 /\ RedirectKey \in DOMAIN session
                       => /\ RedirectKey \in DOMAIN session'
                          /\ session'[RedirectKey] = session[RedirectKey]]_vars

\* A login was refused on a session that holds an identity and a pending
\* target.
C17_Witness ==
    /\ IsLoginExchange
    /\ response = FailedLoginResponse
    /\ HoldsIdentity(session)
    /\ RedirectKey \in DOMAIN session
    /\ session[RedirectKey] = ReportesPath

(***************************************************************************)
(* C18                                                                     *)
(***************************************************************************)

\* C18: a request to a guarded route on a session whose identity decodes
\* ends AUTHORIZED or FORBIDDEN and leaves the session exactly as it was: a
\* FORBIDDEN request records no target and keeps "user", an AUTHORIZED one
\* keeps a pending redirect_after_login.
C18_DecodedRequestKeepsSession ==
    [][\A path \in GuardedPaths :
          (GuardedRequest(path) /\ HoldsIdentity(session))
              => /\ session' = session
                 /\ Authorized(response') \/ Forbidden(response')]_vars

\* /admin was refused to a logged-in user while a target was pending, and
\* both are still in the session.
C18_Witness ==
    /\ request = Get(AdminPath, Empty)
    /\ Forbidden(response)
    /\ HoldsIdentity(session)
    /\ RedirectKey \in DOMAIN session
    /\ session[RedirectKey] = ReportesPath

(***************************************************************************)
(* C19                                                                     *)
(***************************************************************************)

\* C19, for a session only the handlers change: a successful login stores
\* the encoded Identity of the user it authenticated, whatever identity was
\* there before; the value under "user" appears or changes in no other step,
\* so it is that of the most recent successful login; it is always the
\* encoding of a stored user's fields; and a guarded request passes
\* authentication only on a session that holds it.
C19_IdentityIsLastLogin ==
    [][/\ \A username \in UsernameInputs, password \in PasswordInputs :
             (login(username, password) /\ LoginSucceeded')
                 => /\ "user" \in DOMAIN session'
                    /\ session'["user"]
                          = model_dump(authenticate_user(username, password).user)
       /\ ("user" \in DOMAIN session'
             /\ ("user" \notin DOMAIN session \/ session'["user"] # session["user"]))
             => /\ LoginSucceeded'
                /\ session'["user"] = model_dump(LoggedInUser')
       /\ "user" \in DOMAIN session'
             => \E username \in DOMAIN UsersTable :
                   session'["user"] = NonSecretFields(UsersTable[username])
       /\ \A path \in GuardedPaths :
             (GuardedRequest(path) /\ ~Unauthenticated(response'))
                 => /\ "user" \in DOMAIN session
                    /\ session' = session]_vars

\* The dashboard was served on a session holding the identity of a login.
C19_Witness ==
    /\ request = Get(DashboardPath, Empty)
    /\ Authorized(response)
    /\ session["user"] = NonSecretFields(UsersTable[EvaName])
    /\ response.context.user.username = EvaName

(***************************************************************************)
(* C16                                                                     *)
(***************************************************************************)

\* Request i was answered with a redirect to the target its session held
\* when it was loaded.
RedirectedToTarget(i) ==
    /\ request[i].pc = "done"
    /\ RedirectKey \in DOMAIN request[i].loaded
    /\ response[i].location = request[i].loaded[RedirectKey]

\* C16 as stated: of two successful logins on one session, however their
\* handling overlaps, at most one is redirected to the recorded target.
C16_ConcurrentConsumeOnce ==
    \A i, j \in RequestIds :
        (i # j /\ request[i].loaded = request[j].loaded)
            => ~(RedirectedToTarget(i) /\ RedirectedToTarget(j))

\* C16 amended: each login consumes the target from the session it loaded.
\* A request that loaded the session after the other's response was stored
\* finds no target and is redirected to /dashboard, so serialized requests
\* consume the target once; two requests that both loaded the session
\* before either response was stored are both redirected to the recorded
\* target.
C16_ConsumeOncePerLoadedSession ==
    \A i, j \in RequestIds :
        (i # j /\ request[i].pc = "done" /\ request[j].pc = "done")
            => /\ response[i].status_code = 303
               /\ i \in request[j].after
                     => /\ RedirectKey \notin DOMAIN request[j].loaded
                        /\ response[j].location = DashboardPath
               /\ (/\ i \notin request[j].after
                   /\ j \notin request[i].after
                   /\ RedirectKey \in DOMAIN request[i].loaded)
                     => /\ request[j].loaded = request[i].loaded
                        /\ RedirectedToTarget(i)
                        /\ RedirectedToTarget(j)
               /\ RedirectKey \notin DOMAIN session

\* Both logins loaded the session holding /profile before either was
\* answered, and both were redirected to /profile.
C16_Witness ==
    /\ \A i \in RequestIds :
          /\ RedirectedToTarget(i)
          /\ response[i].location = ProfilePath
          /\ request[i].after = {}
    /\ request[1].form # request[2].form

====
